---- MODULE Spec2Model ----
(***************************************************************************)
(* Model of web/server.py of the Williams Treaty Territories map server:   *)
(* configuration loading with environment overrides, the basic-auth        *)
(* decorator, the /data route with its local / remote / hybrid modes and   *)
(* the /api/layer-config merge of data source configurations; and of the   *)
(* scripts scripts/run_all.py, scripts/filters/clip_fuel_types.py and the  *)
(* fire perimeter download of scripts/06_download_fire_fuel_dem.py.        *)
(*                                                                         *)
(* Python values are modelled with their identity: dicts and lists live    *)
(* in a heap (a sequence of objects, an address is an index), so in-place  *)
(* mutation, aliasing and deepcopy are what they are in Python.  A Python  *)
(* str is a sequence of tokens (names and the separators ".", "/", ":"),   *)
(* so split, concatenation and urljoin are computed.                       *)
(***************************************************************************)
EXTENDS Integers, Sequences, FiniteSets, TLC

VARIABLES
    pc,           \* which program runs and where it is
    env,          \* os.environ: a function from variable names to str
    config_yaml,  \* the parsed content of config/data_source.yaml, <<>> when absent
    heap,         \* the Python objects (dicts and lists) alive in the process
    startup,      \* number of heap objects built at import time
    BASIC_AUTH_ENABLED,
    BASIC_AUTH_PASSWORD,
    DATA_MODE,
    DATA_REMOTE_URL,
    DATA_FALLBACK_PRIORITY,
    request,      \* the request handled last
    response,     \* its response
    result,       \* return value of the function called, or how a script ended
    argv,         \* a script's run: its command line and the world it meets
    files,        \* the files a script has on disk
    output        \* what a script has printed, logged and requested so far

vars == <<pc, env, config_yaml, heap, startup, BASIC_AUTH_ENABLED,
          BASIC_AUTH_PASSWORD, DATA_MODE, DATA_REMOTE_URL,
          DATA_FALLBACK_PRIORITY, request, response, result, argv, files, output>>

\* the variables of the server and of the scripts
server_vars == <<env, config_yaml, heap, startup, BASIC_AUTH_ENABLED,
                 BASIC_AUTH_PASSWORD, DATA_MODE, DATA_REMOTE_URL,
                 DATA_FALLBACK_PRIORITY, request, response>>
script_vars == <<argv, files, output>>

----------------------------------------------------------------------------
(* Python values *)

Str(s)  == [t |-> "str",  s |-> s, a |-> 0]
Bool(b) == [t |-> "bool", s |-> <<IF b THEN "True" ELSE "False">>, a |-> 0]
IntVal(n) == [t |-> "int",  s |-> <<n>>, a |-> 0]
None    == [t |-> "none", s |-> <<>>, a |-> 0]
Ref(a)  == [t |-> "ref",  s |-> <<>>, a |-> a]
\* a dict literal {} that is used as a default and never stored
EmptyDict == [t |-> "emptydict", s |-> <<>>, a |-> 0]
\* a list literal used as a default and never stored
ListLit(items) == [t |-> "listlit", s |-> items, a |-> 0]

Dict(keys, vals) == [kind |-> "dict", keys |-> keys, vals |-> vals]
List(vals)       == [kind |-> "list", keys |-> <<>>, vals |-> vals]

K(name) == <<name>>

IndexOf(seq, x) ==
    IF \E i \in 1..Len(seq) : seq[i] = x
    THEN CHOOSE i \in 1..Len(seq) : seq[i] = x /\ \A j \in 1..(i-1) : seq[j] # x
    ELSE 0

\* key in d
Has(o, k) == o.kind = "dict" /\ IndexOf(o.keys, k) # 0
\* d[key]
Item(o, k) == o.vals[IndexOf(o.keys, k)]
\* d[key] = v : an existing key keeps its place, a new key goes last
Put(o, k, v) ==
    IF Has(o, k)
    THEN [o EXCEPT !.vals[IndexOf(o.keys, k)] = v]
    ELSE [o EXCEPT !.keys = Append(@, k), !.vals = Append(@, v)]

IsDictRef(h, v) == v.t = "ref" /\ h[v.a].kind = "dict"
IsListRef(h, v) == v.t = "ref" /\ h[v.a].kind = "list"

\* d.get(key, default), d a dict object or a {} default
DictGet(h, d, k, default) ==
    IF IsDictRef(h, d) /\ Has(h[d.a], k) THEN Item(h[d.a], k) ELSE default

\* bool(v)
Truthy(h, v) ==
    CASE v.t = "str"  -> v.s # <<>>
      [] v.t = "bool" -> v.s = <<"True">>
      [] v.t = "int"  -> v.s # <<"0">>
      [] v.t = "ref"  -> h[v.a].vals # <<>>
      [] v.t = "listlit" -> v.s # <<>>
      [] OTHER -> FALSE

\* str.split(sep)
RECURSIVE Split(_, _)
Split(s, sep) ==
    IF \E i \in 1..Len(s) : s[i] = sep
    THEN LET i == CHOOSE n \in 1..Len(s) :
                      s[n] = sep /\ \A m \in 1..(n-1) : s[m] # sep
         IN  <<SubSeq(s, 1, i-1)>> \o Split(SubSeq(s, i+1, Len(s)), sep)
    ELSE <<s>>

\* sep.join(parts)
RECURSIVE Join(_, _)
Join(parts, sep) ==
    IF parts = <<>> THEN <<>>
    ELSE IF Len(parts) = 1 THEN parts[1]
    ELSE parts[1] \o <<sep>> \o Join(Tail(parts), sep)

----------------------------------------------------------------------------
(* load_data_source_config *)

\* the configuration returned when config/data_source.yaml does not exist;
\* the root dict is object 1
DefaultConfig == <<
    Dict(<<K("data_source"), K("cache"), K("auto_create_directories"), K("env_overrides")>>,
         <<Ref(2), Ref(4), Bool(TRUE), Ref(5)>>),
    Dict(<<K("mode"), K("remote_url"), K("local_path"), K("fallback_priority"), K("on_missing")>>,
         <<Str(<<"local">>), Str(<<>>), Str(<<"data">>), Ref(3), Str(<<"404">>)>>),
    List(<<Str(<<"local">>), Str(<<"remote">>)>>),
    Dict(<<K("enabled"), K("ttl_seconds"), K("directory")>>,
         <<Bool(TRUE), IntVal("3600"), Str(<<".cache", "/", "remote_data">>)>>),
    Dict(<<K("enabled"), K("variables")>>, <<Bool(TRUE), Ref(6)>>),
    Dict(<<K("DATA_SOURCE_URL"), K("DATA_MODE"), K("LOCAL_DATA_PATH")>>,
         <<Str(<<"remote_url">>), Str(<<"mode">>), Str(<<"local_path">>)>>)
>>

\* yaml is the object graph yaml.safe_load builds from the file, <<>> when
\* the file does not exist; the result is a heap whose object 1 is the config
load_data_source_config(yaml) ==
    IF yaml = <<>> THEN DefaultConfig ELSE yaml

----------------------------------------------------------------------------
(* apply_env_overrides *)

\* os.environ.get(name)
EnvGet(e, name) == IF name \in DOMAIN e THEN Str(e[name]) ELSE None

\* the loop body's dotted branch: walk parts[:-1] from the config, creating
\* missing dicts, then assign parts[-1]; a target that is not a dict raises
\* TypeError (st.raised)
RECURSIVE WalkAssign(_, _, _, _, _)
WalkAssign(h, target, parts, i, value) ==
    IF ~IsDictRef(h, target) THEN [heap |-> h, raised |-> TRUE]
    ELSE IF i = Len(parts)
    THEN [heap |-> [h EXCEPT ![target.a] = Put(@, parts[i], value)], raised |-> FALSE]
    ELSE IF ~Has(h[target.a], parts[i])
    THEN LET fresh == Len(h) + 1
             h2 == Append([h EXCEPT ![target.a] = Put(@, parts[i], Ref(fresh))],
                          Dict(<<>>, <<>>))
         IN  WalkAssign(h2, Ref(fresh), parts, i + 1, value)
    ELSE WalkAssign(h, Item(h[target.a], parts[i]), parts, i + 1, value)

\* a faulty variant of SimpleAssign that assigns at the top level of
\* the config instead of in config['data_source']
SimpleAssign_TopLevel(h, config, config_path, value) ==
    [heap |-> [h EXCEPT ![config.a] = Put(@, config_path, value)], raised |-> FALSE]

\* the loop body's simple branch: config['data_source'][config_path] = value
SimpleAssign(h, config, config_path, value) ==
    LET h2 == IF Has(h[config.a], K("data_source")) THEN h
              ELSE Append([h EXCEPT ![config.a] = Put(@, K("data_source"), Ref(Len(h) + 1))],
                          Dict(<<>>, <<>>))
        ds == Item(h2[config.a], K("data_source"))
    IN  IF ~IsDictRef(h2, ds) THEN [heap |-> h2, raised |-> TRUE]
        ELSE [heap |-> [h2 EXCEPT ![ds.a] = Put(@, config_path, value)], raised |-> FALSE]

\* one iteration of "for env_var, config_path in variables.items()"
OverrideOne(h, config, e, env_var, config_path) ==
    LET env_value == EnvGet(e, env_var)
    IN  IF ~Truthy(h, env_value) THEN [heap |-> h, raised |-> FALSE]
        ELSE IF config_path.t # "str" THEN [heap |-> h, raised |-> TRUE]
        ELSE IF \E n \in 1..Len(config_path.s) : config_path.s[n] = "."
        THEN WalkAssign(h, config, Split(config_path.s, "."), 1, env_value)
        ELSE SimpleAssign(h, config, config_path.s, env_value)

\* the for loop over variables.items(), from item i on; a dict that changes
\* size while it is iterated raises RuntimeError
RECURSIVE OverrideLoop(_, _, _, _, _, _)
OverrideLoop(h, config, e, variables, i, n0) ==
    IF variables.t # "ref" THEN [heap |-> h, raised |-> FALSE]
    ELSE IF Len(h[variables.a].keys) # n0 THEN [heap |-> h, raised |-> TRUE]
    ELSE IF i > n0 THEN [heap |-> h, raised |-> FALSE]
    ELSE LET st == OverrideOne(h, config, e, h[variables.a].keys[i], h[variables.a].vals[i])
         IN  IF st.raised THEN st
             ELSE OverrideLoop(st.heap, config, e, variables, i + 1, n0)

\* apply_env_overrides(config) in environment e: the config is mutated in
\* place and returned; raised tells that an exception left the function
apply_env_overrides(h, config, e) ==
    LET eo == DictGet(h, config, K("env_overrides"), EmptyDict)
    IN  IF ~Truthy(h, DictGet(h, eo, K("enabled"), Bool(TRUE)))
        THEN [heap |-> h, raised |-> FALSE]
        ELSE LET variables == DictGet(h, eo, K("variables"), EmptyDict)
             IN  OverrideLoop(h, config, e, variables, 1,
                              IF variables.t = "ref" THEN Len(h[variables.a].keys) ELSE 0)

----------------------------------------------------------------------------
(* Harness of apply_env_overrides: the module-level calls of lines 195-196 *)
(* on any configuration file and environment.                              *)

MaxVars == 2

EnvNames == <<K("DATA_SOURCE_URL"), K("DATA_MODE"), K("LOCAL_DATA_PATH")>>

\* values an environment variable is given ("" is set and empty)
EnvValues == {<<>>, <<"hybrid">>, <<"remote">>}

Envs == UNION {[names -> EnvValues] :
                  names \in SUBSET {EnvNames[i] : i \in 1..Len(EnvNames)}}

\* config paths written in env_overrides.variables
ConfigPaths == {
    <<"mode">>,
    <<"data_source", ".", "mode">>,
    <<"extra", ".", "key">>,
    <<"extra", ".", "key", ".", "sub">>,
    <<"cache", ".", "enabled", ".", "x">> }

PathLists == UNION {[1..n -> ConfigPaths] : n \in 0..MaxVars}

\* a data_source.yaml: env_overrides.enabled is True, False or not written,
\* data_source is written or not, variables maps the first names of
\* EnvNames to the paths
EnvYaml(enabled, hasDS, paths) == <<
    Dict((IF hasDS THEN <<K("data_source")>> ELSE <<>>) \o <<K("cache"), K("env_overrides")>>,
         (IF hasDS THEN <<Ref(2)>> ELSE <<>>) \o <<Ref(3), Ref(4)>>),
    Dict(<<K("mode"), K("remote_url")>>, <<Str(<<"local">>), Str(<<>>)>>),
    Dict(<<K("enabled")>>, <<Bool(TRUE)>>),
    Dict((IF enabled = "absent" THEN <<>> ELSE <<K("enabled")>>) \o <<K("variables")>>,
         (IF enabled = "absent" THEN <<>> ELSE <<Bool(enabled = "True")>>) \o <<Ref(5)>>),
    Dict([i \in 1..Len(paths) |-> EnvNames[i]], [i \in 1..Len(paths) |-> Str(paths[i])])
>>

EnvYamls == {EnvYaml(en, ds, ps) : en \in {"True", "False", "absent"},
                                   ds \in BOOLEAN, ps \in PathLists}

\* request.authorization of a request without an Authorization header
NoAuthorization == [present |-> FALSE, username |-> <<>>, password |-> <<>>]

\* where a path that does not exist leads
NoEntry == << <<"/">>, <<"ENOENT">> >>

NoBody == {}

Response(status, handler) ==
    [status |-> status, handler |-> handler, location |-> <<>>, file |-> NoEntry,
     www_authenticate |-> FALSE, body |-> NoBody]

\* no request was handled yet
NoRequest ==
    [route |-> "none", filepath |-> <<>>, auth |-> NoAuthorization, layers_yaml |-> <<>>]

NoResponse == Response(0, "none")

EnvInit ==
    /\ pc = "env_loaded"
    /\ env \in Envs
    /\ config_yaml \in EnvYamls \cup {<<>>}
    /\ heap = load_data_source_config(config_yaml)
    /\ startup = Len(heap)
    /\ BASIC_AUTH_ENABLED = FALSE
    /\ BASIC_AUTH_PASSWORD = <<>>
    /\ DATA_MODE = None
    /\ DATA_REMOTE_URL = None
    /\ DATA_FALLBACK_PRIORITY = None
    /\ request = NoRequest
    /\ response = NoResponse
    /\ result = [raised |-> FALSE, value |-> None]
    /\ argv = <<>>
    /\ files = {}
    /\ output = <<>>

\* DATA_SOURCE_CONFIG = apply_env_overrides(DATA_SOURCE_CONFIG)
ApplyEnvOverrides ==
    /\ pc = "env_loaded"
    /\ LET r == apply_env_overrides(heap, Ref(1), env)
       IN  /\ heap' = r.heap
           /\ result' = [raised |-> r.raised, value |-> IF r.raised THEN None ELSE Ref(1)]
    /\ pc' = "env_done"
    /\ UNCHANGED <<env, config_yaml, startup, BASIC_AUTH_ENABLED, BASIC_AUTH_PASSWORD,
                   DATA_MODE, DATA_REMOTE_URL, DATA_FALLBACK_PRIORITY, request, response,
                   argv, files, output>>

EnvNext == ApplyEnvOverrides

SpecEnv == EnvInit /\ [][EnvNext]_vars

----------------------------------------------------------------------------
(* Properties of apply_env_overrides *)

Missing == [t |-> "missing", s |-> <<>>, a |-> 0]

\* the value found in heap h by following the keys of path from value v
RECURSIVE Lookup(_, _, _)
Lookup(h, v, path) ==
    IF path = <<>> THEN v
    ELSE IF IsDictRef(h, v) /\ Has(h[v.a], path[1])
    THEN Lookup(h, Item(h[v.a], path[1]), Tail(path))
    ELSE Missing

\* every key path that leads to a value in h from v
RECURSIVE KeyPaths(_, _)
KeyPaths(h, v) ==
    {<<>>} \cup
    (IF IsDictRef(h, v)
     THEN UNION {{<<h[v.a].keys[i]>> \o q : q \in KeyPaths(h, h[v.a].vals[i])} :
                    i \in 1..Len(h[v.a].keys)}
     ELSE {})

IsPrefix(p, q) == Len(p) <= Len(q) /\ SubSeq(q, 1, Len(p)) = p

\* the configuration apply_env_overrides was called with
EnvInput == load_data_source_config(config_yaml)

EnvOverridesDisabled ==
    Lookup(EnvInput, Ref(1), <<K("env_overrides"), K("enabled")>>) = Bool(FALSE)

\* the (environment variable, config path) pairs of env_overrides.variables
EnvPairs ==
    LET v == Lookup(EnvInput, Ref(1), <<K("env_overrides"), K("variables")>>)
    IN  IF IsDictRef(EnvInput, v)
        THEN [i \in 1..Len(EnvInput[v.a].keys) |->
                 [var |-> EnvInput[v.a].keys[i], path |-> EnvInput[v.a].vals[i].s]]
        ELSE <<>>

\* the pair's variable is set to a non-empty value
PairIsSet(i) == EnvPairs[i].var \in DOMAIN env /\ env[EnvPairs[i].var] # <<>>

\* the keys a config path addresses: a dotted path names nested keys, a
\* plain name a key of data_source
Addressed(path) ==
    IF \E n \in 1..Len(path) : path[n] = "."
    THEN Split(path, ".")
    ELSE <<K("data_source"), path>>

PairHolds(i) ==
    Lookup(heap, Ref(1), Addressed(EnvPairs[i].path)) = Str(env[EnvPairs[i].var])

\* a pair after pair i, its variable set, assigns the same keys or a prefix
OverwrittenLater(i) ==
    \E j \in (i+1)..Len(EnvPairs) :
        PairIsSet(j) /\ IsPrefix(Addressed(EnvPairs[j].path), Addressed(EnvPairs[i].path))

\* pair i raises TypeError: its variable is set and its path leads through
\* keys that hold a value other than a mapping, either in the configuration
\* as loaded or because an earlier pair with a set variable assigned them
RaisesAt(i) ==
    /\ PairIsSet(i)
    /\ \E n \in 1..(Len(Addressed(EnvPairs[i].path)) - 1) :
          LET q == SubSeq(Addressed(EnvPairs[i].path), 1, n)
          IN  \/ /\ Lookup(EnvInput, Ref(1), q) # Missing
                 /\ ~IsDictRef(EnvInput, Lookup(EnvInput, Ref(1), q))
              \/ \E j \in 1..(i-1) : PairIsSet(j) /\ Addressed(EnvPairs[j].path) = q

\* no set pair addresses these keys, keys above them or keys below them
Untouched(q) ==
    \A i \in 1..Len(EnvPairs) :
        PairIsSet(i) =>
            /\ ~IsPrefix(Addressed(EnvPairs[i].path), q)
            /\ ~IsPrefix(q, Addressed(EnvPairs[i].path))

\* values outside the set pairs' paths are what they were
FrameKept ==
    /\ \A q \in KeyPaths(EnvInput, Ref(1)) :
           (Untouched(q) /\ Lookup(EnvInput, Ref(1), q).t # "ref")
               => Lookup(heap, Ref(1), q) = Lookup(EnvInput, Ref(1), q)
    /\ (\A i \in 1..Len(EnvPairs) : ~PairIsSet(i)) => heap = EnvInput

\* C10 as stated: with env_overrides enabled the call returns a configuration
\* that holds, for every pair whose variable is set to a non-empty value,
\* that value at the pair's config path; unset or empty variables change
\* nothing; with env_overrides.enabled false the configuration is unchanged.
C10_AsStated ==
    pc = "env_done" =>
        /\ EnvOverridesDisabled => (~result.raised /\ heap = EnvInput)
        /\ ~EnvOverridesDisabled =>
              /\ ~result.raised
              /\ \A i \in 1..Len(EnvPairs) : PairIsSet(i) => PairHolds(i)
              /\ FrameKept

\* C10 amended: with env_overrides enabled (enabled true or not written) and
\* the call returning, every pair whose variable is set to a non-empty value
\* has that value at its config path unless a later pair with a set variable
\* assigns the same path or a prefix of it; values no set pair addresses are
\* unchanged; the call raises TypeError instead of returning exactly when a
\* set pair's path leads through a value that is not a mapping (one of the
\* loaded configuration, or one an earlier set pair assigned); with enabled
\* false the configuration is returned unchanged.
C10_EnvOverrides ==
    pc = "env_done" =>
        /\ EnvOverridesDisabled => (~result.raised /\ heap = EnvInput)
        /\ (~EnvOverridesDisabled /\ ~result.raised) =>
              /\ result.value = Ref(1)
              /\ \A i \in 1..Len(EnvPairs) :
                     (PairIsSet(i) /\ ~OverwrittenLater(i)) => PairHolds(i)
              /\ FrameKept
        /\ ~EnvOverridesDisabled =>
              (result.raised <=> \E i \in 1..Len(EnvPairs) : RaisesAt(i))

\* two pairs with set variables and different values address data_source.mode
\* and the call returns with the later value there
C10_Witness ==
    /\ pc = "env_done"
    /\ ~result.raised
    /\ ~EnvOverridesDisabled
    /\ \E i, j \in 1..Len(EnvPairs) :
          /\ i < j
          /\ PairIsSet(i) /\ PairIsSet(j)
          /\ env[EnvPairs[i].var] # env[EnvPairs[j].var]
          /\ Addressed(EnvPairs[i].path) = Addressed(EnvPairs[j].path)
          /\ PairHolds(j)

----------------------------------------------------------------------------
(* The file system the server reads.  A path is a sequence of components. *)

PROJECT_ROOT == << <<"app">> >>
WEB_DIR      == PROJECT_ROOT \o << <<"web">> >>
DATA_DIR     == PROJECT_ROOT \o << <<"data">> >>

Directories == { <<>>, PROJECT_ROOT, WEB_DIR, DATA_DIR }

RegularFiles == {
    DATA_DIR \o << <<"f">> >>,
    WEB_DIR \o << <<"f">> >>,
    WEB_DIR \o << <<"index.html">> >>,
    WEB_DIR \o << <<"layers.html">> >>,
    PROJECT_ROOT \o << <<"f">> >> }

Parent(dir) == IF dir = <<>> THEN <<>> ELSE SubSeq(dir, 1, Len(dir) - 1)

\* the entry the operating system reaches from directory cur along the
\* components: ".." is the parent, a component below something that is no
\* directory, or a name that is not there, leads nowhere
RECURSIVE Resolve(_, _)
Resolve(cur, comps) ==
    IF cur = NoEntry THEN NoEntry
    ELSE IF comps = <<>>
    THEN IF cur \in Directories \cup RegularFiles THEN cur ELSE NoEntry
    ELSE IF cur \notin Directories THEN NoEntry
    ELSE IF comps[1] = <<"..">> THEN Resolve(Parent(cur), Tail(comps))
    ELSE Resolve(Append(cur, comps[1]), Tail(comps))

\* Path / str keeps the ".." components and drops empty ones
PathJoin(dir, relative) ==
    [dir |-> dir, comps |-> SelectSeq(Split(relative, "/"), LAMBDA c : c # <<>>)]

\* Path.exists()
PathExists(path) == Resolve(path.dir, path.comps) # NoEntry

----------------------------------------------------------------------------
(* Responses *)

\* jsonify of a flat object of strings: the set of its (key, value) members
JsonError(message) == { << <<K("error")>>, Str(<<message>>) >> }

\* flask.send_file(path): the file the path leads to is opened and sent; a
\* path that leads to a directory or nowhere raises and the request ends 500
FileResponse(entry, handler, otherwise) ==
    IF entry \in RegularFiles
    THEN [Response(200, handler) EXCEPT !.file = entry]
    ELSE Response(otherwise, handler)

send_file(path, handler) ==
    FileResponse(Resolve(path.dir, path.comps), handler, 500)

\* posixpath.normpath of a relative path: ".." cancels the component before
\* it, leading ".." components stay
RECURSIVE NormPath(_, _)
NormPath(done, comps) ==
    IF comps = <<>> THEN done
    ELSE IF comps[1] = <<"..">> /\ done # <<>> /\ done[Len(done)] # <<"..">>
    THEN NormPath(SubSeq(done, 1, Len(done) - 1), Tail(comps))
    ELSE NormPath(Append(done, comps[1]), Tail(comps))

\* flask.send_from_directory(directory, filename): werkzeug's safe_join
\* refuses a name that leaves the directory, and only a regular file is sent
SafeJoined(dir, comps, handler) ==
    IF comps # <<>> /\ comps[1] = <<"..">> THEN Response(404, handler)
    ELSE FileResponse(Resolve(dir, comps), handler, 404)

send_from_directory(dir, filename, handler) ==
    SafeJoined(dir, NormPath(<<>>, SelectSeq(Split(filename, "/"), LAMBDA c : c # <<>>)),
               handler)

----------------------------------------------------------------------------
(* urllib.parse.urljoin on token strings *)

UsesRelative == {<<>>, <<"http">>, <<"https">>}
UsesNetloc   == {<<>>, <<"http">>, <<"https">>}

\* a token made of scheme characters that starts with a letter
IsSchemeToken(t) == t \notin {"/", ":", "..", "."}

FirstIndex(s, tok) ==
    IF \E i \in 1..Len(s) : s[i] = tok
    THEN CHOOSE i \in 1..Len(s) : s[i] = tok /\ \A j \in 1..(i-1) : s[j] # tok
    ELSE 0

\* urlsplit: the scheme is what stands before the first ":" when that is
\* made of scheme characters; i is the index of the first ":"
SplitScheme(url, i, default_scheme) ==
    IF i > 1 /\ \A j \in 1..(i-1) : IsSchemeToken(url[j])
    THEN [scheme |-> SubSeq(url, 1, i-1), rest |-> SubSeq(url, i+1, Len(url))]
    ELSE [scheme |-> default_scheme, rest |-> url]

\* urlsplit: after "//" the netloc runs to the next "/", the index n of which
\* in after is 0 when there is none
SplitNetloc(scheme, after, n) ==
    IF n = 0 THEN [scheme |-> scheme, netloc |-> after, path |-> <<>>]
    ELSE [scheme |-> scheme, netloc |-> SubSeq(after, 1, n-1),
          path |-> SubSeq(after, n, Len(after))]

SplitRest(scheme, rest) ==
    IF Len(rest) >= 2 /\ rest[1] = "/" /\ rest[2] = "/"
    THEN SplitNetloc(scheme, SubSeq(rest, 3, Len(rest)),
                     FirstIndex(SubSeq(rest, 3, Len(rest)), "/"))
    ELSE [scheme |-> scheme, netloc |-> <<>>, path |-> rest]

ParsedRest(ss) == SplitRest(ss.scheme, ss.rest)

\* urlparse(url, scheme): scheme, netloc and path of the url
urlparse(url, default_scheme) ==
    ParsedRest(SplitScheme(url, FirstIndex(url, ":"), default_scheme))

\* urlunparse((scheme, netloc, path, '', '', ''))
urlunparse(scheme, netloc, path) ==
    LET withNetloc ==
            IF netloc # <<>> \/ (scheme # <<>> /\ scheme \in UsesNetloc
                                 /\ ~(Len(path) >= 2 /\ path[1] = "/" /\ path[2] = "/"))
            THEN <<"/", "/">> \o netloc
                 \o (IF path # <<>> /\ path[1] # "/" THEN <<"/">> ELSE <<>>) \o path
            ELSE path
    IN  IF scheme # <<>> THEN scheme \o <<":">> \o withNetloc ELSE withNetloc

\* the loop of urljoin that removes "." and ".." segments
RECURSIVE ResolveSegments(_, _)
ResolveSegments(resolved, segments) ==
    IF segments = <<>> THEN resolved
    ELSE IF segments[1] = <<"..">>
    THEN ResolveSegments(IF resolved = <<>> THEN <<>>
                         ELSE SubSeq(resolved, 1, Len(resolved) - 1), Tail(segments))
    ELSE IF segments[1] = <<".">> THEN ResolveSegments(resolved, Tail(segments))
    ELSE ResolveSegments(Append(resolved, segments[1]), Tail(segments))

\* base_parts: the base path's segments without the last one, unless that
\* is empty
BaseParts(bsplit) ==
    IF bsplit[Len(bsplit)] # <<>> THEN SubSeq(bsplit, 1, Len(bsplit) - 1) ELSE bsplit

\* segments[1:-1] = filter(None, segments[1:-1])
FilterMiddle(joined) ==
    IF Len(joined) <= 2 THEN joined
    ELSE <<joined[1]>>
         \o SelectSeq(SubSeq(joined, 2, Len(joined) - 1), LAMBDA c : c # <<>>)
         \o <<joined[Len(joined)]>>

JoinOrSlash(path) == IF path = <<>> THEN <<"/">> ELSE path

\* the path urljoin builds from the segments
ResolvedPath(segments) ==
    JoinOrSlash(Join(IF segments[Len(segments)] \in {<<".">>, <<"..">>}
                     THEN Append(ResolveSegments(<<>>, segments), <<>>)
                     ELSE ResolveSegments(<<>>, segments), "/"))

JoinPaths(bpath, path) ==
    ResolvedPath(IF path[1] = "/" THEN Split(path, "/")
                 ELSE FilterMiddle(BaseParts(Split(bpath, "/")) \o Split(path, "/")))

\* urljoin once base (b) and url (u) are parsed
JoinParsed(b, u, url) ==
    IF u.scheme # b.scheme \/ u.scheme \notin UsesRelative THEN url
    ELSE IF u.scheme \in UsesNetloc /\ u.netloc # <<>>
    THEN urlunparse(u.scheme, u.netloc, u.path)
    ELSE urlunparse(u.scheme,
                    IF u.scheme \in UsesNetloc THEN b.netloc ELSE u.netloc,
                    IF u.path = <<>> THEN b.path ELSE JoinPaths(b.path, u.path))

JoinWithBase(b, url) == JoinParsed(b, urlparse(url, b.scheme), url)

urljoin(base, url) ==
    IF base = <<>> THEN url
    ELSE IF url = <<>> THEN base
    ELSE JoinWithBase(urlparse(base, <<>>), url)

----------------------------------------------------------------------------
(* Basic authentication *)

Authorization(username, password) ==
    [present |-> TRUE, username |-> username, password |-> password]

\* a faulty variant of check_auth that also wants a username
check_auth_WithUsername(username, password) ==
    username # <<>> /\ password = BASIC_AUTH_PASSWORD

check_auth(username, password) == password = BASIC_AUTH_PASSWORD

authenticate ==
    [Response(401, "none") EXCEPT !.www_authenticate = TRUE]

\* a faulty variant of requires_auth that lets a request without an
\* Authorization header through
requires_auth_HeaderOptional(auth, outcome) ==
    IF ~BASIC_AUTH_ENABLED THEN outcome
    ELSE IF auth.present /\ ~check_auth(auth.username, auth.password)
    THEN [response |-> authenticate, heap |-> heap]
    ELSE outcome

\* a faulty variant of requires_auth that does not look at BASIC_AUTH_ENABLED
requires_auth_AlwaysOn(auth, outcome) ==
    IF ~auth.present \/ ~check_auth(auth.username, auth.password)
    THEN [response |-> authenticate, heap |-> heap]
    ELSE outcome

\* the decorated function: outcome is what the wrapped handler returns and
\* does to the heap when it is called
requires_auth(auth, outcome) ==
    IF ~BASIC_AUTH_ENABLED THEN outcome
    ELSE IF ~auth.present \/ ~check_auth(auth.username, auth.password)
    THEN [response |-> authenticate, heap |-> heap]
    ELSE outcome

----------------------------------------------------------------------------
(* Route handlers *)

ReadOnly(resp) == [response |-> resp, heap |-> heap]

index == ReadOnly(send_file([dir |-> WEB_DIR, comps |-> << <<"index.html">> >>], "index"))

serve_web_files(filename) ==
    ReadOnly(send_from_directory(WEB_DIR, filename, "serve_web_files"))

\* the MIME type and the cache headers chosen from the suffix are not kept
serve_local_file(file_path) == send_file(file_path, "serve_data")

redirect(location) ==
    [Response(302, "serve_data") EXCEPT !.location = location]

\* the items of DATA_FALLBACK_PRIORITY
PriorityItems ==
    IF DATA_FALLBACK_PRIORITY.t = "ref" THEN heap[DATA_FALLBACK_PRIORITY.a].vals
    ELSE [i \in 1..Len(DATA_FALLBACK_PRIORITY.s) |-> Str(<<DATA_FALLBACK_PRIORITY.s[i]>>)]

\* a faulty variant of HybridLoop that tries the local file first whatever
\* the order of fallback_priority is
HybridLoop_LocalFirst(filepath, file_path, i) ==
    IF (\E n \in 1..Len(PriorityItems) : PriorityItems[n] = Str(<<"local">>))
       /\ PathExists(file_path)
    THEN serve_local_file(file_path)
    ELSE IF (\E n \in 1..Len(PriorityItems) : PriorityItems[n] = Str(<<"remote">>))
            /\ Truthy(heap, DATA_REMOTE_URL)
    THEN redirect(urljoin(DATA_REMOTE_URL.s \o <<"/">>, filepath))
    ELSE [Response(404, "serve_data") EXCEPT
             !.body = JsonError("File not found in any configured source")]

\* the for loop of hybrid mode from item i on, file_path being
\* DATA_DIR / filepath
RECURSIVE HybridLoop(_, _, _)
HybridLoop(filepath, file_path, i) ==
    IF i > Len(PriorityItems)
    THEN [Response(404, "serve_data") EXCEPT
             !.body = JsonError("File not found in any configured source")]
    ELSE IF PriorityItems[i] = Str(<<"local">>)
    THEN IF PathExists(file_path)
         THEN serve_local_file(file_path)
         ELSE HybridLoop(filepath, file_path, i + 1)
    ELSE IF PriorityItems[i] = Str(<<"remote">>) /\ Truthy(heap, DATA_REMOTE_URL)
    THEN redirect(urljoin(DATA_REMOTE_URL.s \o <<"/">>, filepath))
    ELSE HybridLoop(filepath, file_path, i + 1)

\* a faulty variant of ServeLocal that redirects to the remote source when
\* the file is not there
ServeLocal_RemoteFallback(file_path) ==
    IF PathExists(file_path) THEN serve_local_file(file_path)
    ELSE IF Truthy(heap, DATA_REMOTE_URL) THEN redirect(DATA_REMOTE_URL.s)
    ELSE [Response(404, "serve_data") EXCEPT !.body = JsonError("File not found")]

\* the local branch
ServeLocal(file_path) ==
    IF ~PathExists(file_path)
    THEN [Response(404, "serve_data") EXCEPT !.body = JsonError("File not found")]
    ELSE serve_local_file(file_path)

serve_data(filepath) ==
    ReadOnly(
        IF DATA_MODE = Str(<<"remote">>)
        THEN IF Truthy(heap, DATA_REMOTE_URL)
             THEN redirect(urljoin(DATA_REMOTE_URL.s \o <<"/">>, filepath))
             ELSE [Response(500, "serve_data") EXCEPT
                      !.body = JsonError("Remote mode configured but no remote_url set")]
        ELSE IF DATA_MODE = Str(<<"hybrid">>)
        THEN HybridLoop(filepath, PathJoin(DATA_DIR, filepath), 1)
        ELSE ServeLocal(PathJoin(DATA_DIR, filepath)))

\* the listing of boundaries/*.geojson and processed/ndvi/*.tif: both
\* directories are absent from the modelled file system
list_layers ==
    ReadOnly([Response(200, "list_layers") EXCEPT
                 !.body = { << <<K("boundaries")>>, EmptyDict >>,
                            << <<K("ndvi")>>, EmptyDict >>,
                            << <<K("fire")>>, EmptyDict >> }])

app_info ==
    ReadOnly([Response(200, "app_info") EXCEPT
                 !.body = { << <<K("data_repository")>>,
                               IF Truthy(heap, DATA_REMOTE_URL) THEN DATA_REMOTE_URL
                               ELSE Str(<<"local">>) >> }])

data_source_info ==
    ReadOnly([Response(200, "data_source_info") EXCEPT
                 !.body = { << <<K("mode")>>, DATA_MODE >>,
                            << <<K("remote_url")>>,
                               IF Truthy(heap, DATA_REMOTE_URL) THEN DATA_REMOTE_URL
                               ELSE None >> }])

layers_page ==
    ReadOnly(send_file([dir |-> WEB_DIR, comps |-> << <<"layers.html">> >>], "layers_page"))

----------------------------------------------------------------------------
(* merge_data_source_configs and the /api/layer-config handler *)

\* a faulty variant of DeepCopy, copy.copy(v): only the object v itself is
\* built anew
ShallowCopy(h, v) ==
    IF v.t = "ref" THEN [heap |-> Append(h, h[v.a]), value |-> Ref(Len(h) + 1)]
    ELSE IF v.t = "emptydict"
    THEN [heap |-> Append(h, Dict(<<>>, <<>>)), value |-> Ref(Len(h) + 1)]
    ELSE [heap |-> h, value |-> v]

\* copy.deepcopy(v): every dict and list reachable from v is built anew
RECURSIVE DeepCopy(_, _)
RECURSIVE DeepCopyItems(_, _, _, _)
RECURSIVE NextCopy(_, _, _, _)
Rebuilt(o, r) ==
    [heap |-> Append(r.heap, [o EXCEPT !.vals = r.vals]), value |-> Ref(Len(r.heap) + 1)]
DeepCopy(h, v) ==
    IF v.t = "ref" THEN Rebuilt(h[v.a], DeepCopyItems(h, h[v.a].vals, 1, <<>>))
    ELSE IF v.t = "emptydict"
    THEN [heap |-> Append(h, Dict(<<>>, <<>>)), value |-> Ref(Len(h) + 1)]
    ELSE [heap |-> h, value |-> v]
DeepCopyItems(h, vals, i, acc) ==
    IF i > Len(vals) THEN [heap |-> h, vals |-> acc]
    ELSE NextCopy(DeepCopy(h, vals[i]), vals, i, acc)
NextCopy(c, vals, i, acc) == DeepCopyItems(c.heap, vals, i + 1, Append(acc, c.value))

\* for key, value in layer_ds.items(): merged[key] = value
RECURSIVE PutItems(_, _, _)
PutItems(o, src, i) ==
    IF i > Len(src.keys) THEN o
    ELSE PutItems(Put(o, src.keys[i], src.vals[i]), src, i + 1)

\* the rest of merge_data_source_configs once merged is built
MergeInto(h, merged, layer_config) ==
    IF ~Has(h[layer_config.a], K("data_source"))
    THEN [heap |-> merged.heap, value |-> merged.value, raised |-> FALSE]
    ELSE IF ~IsDictRef(h, Item(h[layer_config.a], K("data_source")))
    THEN [heap |-> merged.heap, value |-> None, raised |-> TRUE]
    ELSE [heap |-> [merged.heap EXCEPT ![merged.value.a] =
                       PutItems(@, h[Item(h[layer_config.a], K("data_source")).a], 1)],
          value |-> merged.value, raised |-> FALSE]

\* merge_data_source_configs(global_config, layer_config) on heap h: value
\* is the returned dict; raised tells that layer_config['data_source'] has
\* no items() and AttributeError left the function
merge_data_source_configs(h, global_config, layer_config) ==
    MergeInto(h, DeepCopy(h, DictGet(h, global_config, K("data_source"), EmptyDict)),
              layer_config)

\* convert_keys_to_strings(obj): dicts and lists are rebuilt with str(k) for
\* every key k; a key that is a str is its own str(k)
convert_keys_to_strings(h, obj) == DeepCopy(h, obj)

\* jsonify(obj): the JSON document, as the set of its (path, scalar) members;
\* a list item's path component is its index
RECURSIVE jsonify(_, _)
jsonify(h, v) ==
    IF v.t # "ref" THEN { << <<>>, v >> }
    ELSE IF h[v.a].vals = <<>>
    THEN { << <<>>, IF h[v.a].kind = "dict" THEN EmptyDict ELSE ListLit(<<>>) >> }
    ELSE UNION { { << <<IF h[v.a].kind = "dict" THEN h[v.a].keys[i] ELSE K(ToString(i))>> \o e[1],
                      e[2] >> : e \in jsonify(h, h[v.a].vals[i]) } :
                 i \in 1..Len(h[v.a].vals) }

\* the objects yaml.safe_load builds from a document, placed after the
\* objects of heap h
SafeLoad(h, doc) ==
    h \o [i \in 1..Len(doc) |->
            [doc[i] EXCEPT !.vals = [j \in 1..Len(doc[i].vals) |->
                IF doc[i].vals[j].t = "ref" THEN Ref(doc[i].vals[j].a + Len(h))
                ELSE doc[i].vals[j]]]]

\* if 'fallback_priority' not in layer['data_source']: ... = merged_ds.get(...)
DefaultPriority(h, ds, merged_ds) ==
    IF Has(h[ds.a], K("fallback_priority")) THEN h
    ELSE IF Has(h[merged_ds.a], K("fallback_priority"))
    THEN [h EXCEPT ![ds.a] =
             Put(@, K("fallback_priority"), Item(h[merged_ds.a], K("fallback_priority")))]
    ELSE Append([h EXCEPT ![ds.a] = Put(@, K("fallback_priority"), Ref(Len(h) + 1))],
                List(<<Str(<<"local">>), Str(<<"remote">>)>>))

\* if 'mode' not in layer['data_source']: ... = merged_ds.get('mode', 'local')
DefaultMode(h, ds, merged_ds) ==
    IF Has(h[ds.a], K("mode")) THEN h
    ELSE [h EXCEPT ![ds.a] =
             Put(@, K("mode"), DictGet(h, merged_ds, K("mode"), Str(<<"local">>)))]

\* the two "add global defaults" statements on layer['data_source']
AddDefaults(h, ds, merged_ds) ==
    [heap |-> DefaultPriority(DefaultMode(h, ds, merged_ds), ds, merged_ds),
     raised |-> FALSE]

\* if not layer.get('data_source'): layer['data_source'] = {}
EnsureDataSource(h, layer) ==
    IF ~Truthy(h, DictGet(h, layer, K("data_source"), None))
    THEN Append([h EXCEPT ![layer.a] = Put(@, K("data_source"), Ref(Len(h) + 1))],
                Dict(<<>>, <<>>))
    ELSE h

WithDataSource(h, layer, merged_ds) ==
    AddDefaults(h, Item(h[layer.a], K("data_source")), merged_ds)

AfterMerge(m, layer) ==
    IF m.raised THEN [heap |-> m.heap, raised |-> TRUE]
    ELSE WithDataSource(EnsureDataSource(m.heap, layer), layer, m.value)

\* the body of "for layer in config['layers']" for one layer
LayerStep(h, layer) == AfterMerge(merge_data_source_configs(h, Ref(1), layer), layer)

RECURSIVE LayerLoop(_, _, _)
RECURSIVE LoopOn(_, _, _)
LayerLoop(h, layers, i) ==
    IF i > Len(h[layers.a].vals) THEN [heap |-> h, raised |-> FALSE]
    ELSE LoopOn(LayerStep(h, h[layers.a].vals[i]), layers, i)
LoopOn(st, layers, i) ==
    IF st.raised THEN st ELSE LayerLoop(st.heap, layers, i + 1)

JsonResponse(c) ==
    [response |-> [Response(200, "layer_config") EXCEPT !.body = jsonify(c.heap, c.value)],
     heap |-> SubSeq(c.heap, 1, startup)]

\* the end of the try block, or the except clause when st.raised
Answer(st, config) ==
    IF st.raised
    THEN [response |-> [Response(500, "layer_config") EXCEPT
                           !.body = JsonError("Failed to load configuration")],
          heap |-> SubSeq(st.heap, 1, startup)]
    ELSE JsonResponse(convert_keys_to_strings(st.heap, config))

\* the try block on the loaded document, the root of which is config
MergeLayers(h, config) ==
    Answer(IF Has(h[config.a], K("layers"))
           THEN LayerLoop(h, Item(h[config.a], K("layers")), 1)
           ELSE [heap |-> h, raised |-> FALSE],
           config)

\* layers_yaml is the content of config/layers.yaml, <<>> when the file does
\* not exist; the objects of one request are gone when it is answered
layer_config(layers_yaml) ==
    IF layers_yaml = <<>>
    THEN ReadOnly([Response(404, "layer_config") EXCEPT
                      !.body = JsonError("Layer configuration file not found")])
    ELSE MergeLayers(SafeLoad(SubSeq(heap, 1, startup), layers_yaml), Ref(startup + 1))

----------------------------------------------------------------------------
(* The server: module import, then one action per route *)

MaxSegments == 2
MaxPriority == 2
MaxLayers == 1

RemoteUrl == <<"https", ":", "/", "/", "b.org", "/", "base">>
OtherUrl  == <<"http", ":", "/", "/", "cdn.example", "/", "data">>

\* fallback_priority lists written in data_source.yaml: each source is named
\* at most once, 'cache' is a name serve_data does not know
PriorityLists ==
    {p \in UNION {[1..n -> {<<"local">>, <<"remote">>, <<"cache">>}] : n \in 0..MaxPriority} :
        \A i, j \in 1..Len(p) : p[i] = p[j] => i = j}

\* a data_source.yaml with the given mode and remote_url; priority is a list
\* of sources, or <<"-">> when fallback_priority is not written
ServerYaml(mode, remote_url, priority) == <<
    Dict(<<K("data_source"), K("env_overrides")>>, <<Ref(2), Ref(4)>>),
    Dict(<<K("mode"), K("remote_url")>>
             \o (IF priority = <<"-">> THEN <<>> ELSE <<K("fallback_priority")>>),
         <<Str(mode), Str(remote_url)>>
             \o (IF priority = <<"-">> THEN <<>> ELSE <<Ref(3)>>)),
    List(IF priority = <<"-">> THEN <<>> ELSE [i \in 1..Len(priority) |-> Str(priority[i])]),
    Dict(<<K("enabled"), K("variables")>>, <<Bool(TRUE), Ref(5)>>),
    Dict(<<K("DATA_SOURCE_URL"), K("DATA_MODE")>>,
         <<Str(<<"remote_url">>), Str(<<"mode">>)>>)
>>

ServerYamls ==
    {<<>>}
    \cup {ServerYaml(m, u, <<"-">>) : m \in {<<"local">>, <<"remote">>}, u \in {<<>>, RemoteUrl}}
    \cup {ServerYaml(<<"hybrid">>, u, p) : u \in {<<>>, RemoteUrl},
                                            p \in PriorityLists \cup {<<"-">>}}

ServerEnvs ==
    UNION {[names -> {<<"secret">>}] : names \in SUBSET {K("BASIC_AUTH_PASSWORD")}}
    \cup {K("BASIC_AUTH_PASSWORD") :> <<>>}
    \cup {K("DATA_MODE") :> m @@ e :
             m \in {<<"archive">>, <<"hybrid">>},
             e \in UNION {[names -> {<<"secret">>}] : names \in SUBSET {K("BASIC_AUTH_PASSWORD")}}}
    \cup {K("DATA_SOURCE_URL") :> OtherUrl @@ e :
             e \in UNION {[names -> {<<"secret">>}] : names \in SUBSET {K("BASIC_AUTH_PASSWORD")}}}

\* what request.authorization may be
Authorizations ==
    {NoAuthorization}
    \cup {Authorization(u, pw) : u \in {<<>>, <<"alice">>}, pw \in {<<"secret">>, <<"guess">>}}

\* the segments of requested paths: a file name, "..", and a name with the
\* form of a URL scheme in front
Segments == { <<"f">>, <<"..">>, <<"js", ":", "f">> }

FilePaths ==
    {Join(segs, "/") : segs \in UNION {[1..n -> Segments] : n \in 1..MaxSegments}}

LayerSources == {"absent", "null", "empty", "mode", "remote_url", "fallback_priority"}

\* a layers.yaml whose layers have the given data_source entries ("null" is
\* a data_source key without a value); layer i is object 3i, its data_source
\* object 3i+1
LayersYaml(sources) ==
    <<Dict(<<K("layers")>>, <<Ref(2)>>),
      List([i \in 1..Len(sources) |-> Ref(3 * i)])>>
    \o [n \in 1..(3 * Len(sources)) |->
          LET i == (n + 2) \div 3
              src == sources[i]
          IN  CASE n % 3 = 1 ->
                     Dict(<<K("id")>> \o (IF src = "absent" THEN <<>> ELSE <<K("data_source")>>),
                          <<Str(<<"layer">>)>>
                              \o (IF src = "absent" THEN <<>>
                                  ELSE IF src = "null" THEN <<None>>
                                  ELSE <<Ref(3 * i + 1)>>))
                [] n % 3 = 2 ->
                     CASE src = "mode" -> Dict(<<K("mode")>>, <<Str(<<"remote">>)>>)
                       [] src = "remote_url" -> Dict(<<K("remote_url")>>, <<Str(<<"layer.example">>)>>)
                       [] src = "fallback_priority" -> Dict(<<K("fallback_priority")>>, <<Ref(3 * i + 2)>>)
                       [] OTHER -> Dict(<<>>, <<>>)
                [] OTHER -> List(<<Str(<<"remote">>)>>)]

LayersYamls ==
    {<<>>, <<Dict(<<K("version")>>, <<Str(<<"1">>)>>)>>}
    \cup {LayersYaml(srcs) : srcs \in UNION {[1..n -> LayerSources] : n \in 0..MaxLayers}}

ServerInit ==
    /\ pc = "serving"
    /\ env \in ServerEnvs
    /\ config_yaml \in ServerYamls
    /\ LET DATA_SOURCE_CONFIG ==
               apply_env_overrides(load_data_source_config(config_yaml), Ref(1), env)
           h == DATA_SOURCE_CONFIG.heap
           data_source == DictGet(h, Ref(1), K("data_source"), EmptyDict)
       IN  /\ ~DATA_SOURCE_CONFIG.raised
           /\ heap = h
           /\ startup = Len(h)
           /\ DATA_MODE = DictGet(h, data_source, K("mode"), Str(<<"local">>))
           /\ DATA_REMOTE_URL = DictGet(h, data_source, K("remote_url"), Str(<<>>))
           /\ DATA_FALLBACK_PRIORITY =
                  DictGet(h, data_source, K("fallback_priority"), ListLit(<<"local", "remote">>))
    /\ BASIC_AUTH_ENABLED = Truthy(<<>>, EnvGet(env, K("BASIC_AUTH_PASSWORD")))
    /\ BASIC_AUTH_PASSWORD =
           IF K("BASIC_AUTH_PASSWORD") \in DOMAIN env THEN env[K("BASIC_AUTH_PASSWORD")] ELSE <<>>
    /\ request = NoRequest
    /\ response = NoResponse
    /\ result = [raised |-> FALSE, value |-> None]
    /\ argv = <<>>
    /\ files = {}
    /\ output = <<>>

Respond(outcome) ==
    /\ response' = outcome.response
    /\ heap' = outcome.heap

\* the url map built by the @app.route decorators: the view function a
\* request is dispatched to, called with the request's arguments
Dispatch(req) ==
    CASE req.route = "/" -> index
      [] req.route = "/<path:filename>" -> serve_web_files(req.filepath)
      [] req.route = "/data/<path:filepath>" -> serve_data(req.filepath)
      [] req.route = "/api/layers" -> list_layers
      [] req.route = "/api/info" -> app_info
      [] req.route = "/api/data-source" -> data_source_info
      [] req.route = "/api/layer-config" -> layer_config(req.layers_yaml)
      [] req.route = "/layers" -> layers_page

\* a request arrives and is answered by the decorated view function
Handle(req) ==
    /\ pc = "serving"
    /\ pc' = "responded"
    /\ request' = req
    /\ Respond(requires_auth(req.auth, Dispatch(req)))
    /\ UNCHANGED <<env, config_yaml, startup, BASIC_AUTH_ENABLED, BASIC_AUTH_PASSWORD,
                   DATA_MODE, DATA_REMOTE_URL, DATA_FALLBACK_PRIORITY, result,
                   argv, files, output>>

\* the response is sent, the request context is gone and the server waits
\* for the next request
Teardown ==
    /\ pc = "responded"
    /\ pc' = "serving"
    /\ request' = NoRequest
    /\ response' = NoResponse
    /\ UNCHANGED <<env, config_yaml, heap, startup, BASIC_AUTH_ENABLED, BASIC_AUTH_PASSWORD,
                   DATA_MODE, DATA_REMOTE_URL, DATA_FALLBACK_PRIORITY, result,
                   argv, files, output>>

Request(route, auth, filepath, layers_yaml) ==
    [route |-> route, filepath |-> filepath, auth |-> auth, layers_yaml |-> layers_yaml]

GetIndex == \E auth \in Authorizations : Handle(Request("/", auth, <<>>, <<>>))

GetWebFile ==
    \E auth \in Authorizations, filename \in FilePaths :
        Handle(Request("/<path:filename>", auth, filename, <<>>))

GetData ==
    \E auth \in Authorizations, filepath \in FilePaths :
        Handle(Request("/data/<path:filepath>", auth, filepath, <<>>))

GetApiLayers == \E auth \in Authorizations : Handle(Request("/api/layers", auth, <<>>, <<>>))

GetApiInfo == \E auth \in Authorizations : Handle(Request("/api/info", auth, <<>>, <<>>))

GetApiDataSource ==
    \E auth \in Authorizations : Handle(Request("/api/data-source", auth, <<>>, <<>>))

GetApiLayerConfig ==
    \E auth \in Authorizations, layers_yaml \in LayersYamls :
        Handle(Request("/api/layer-config", auth, <<>>, layers_yaml))

GetLayersPage == \E auth \in Authorizations : Handle(Request("/layers", auth, <<>>, <<>>))

Next ==
    \/ GetIndex
    \/ GetWebFile
    \/ GetData
    \/ GetApiLayers
    \/ GetApiInfo
    \/ GetApiDataSource
    \/ GetApiLayerConfig
    \/ GetLayersPage
    \/ Teardown

Spec == ServerInit /\ [][Next]_vars

----------------------------------------------------------------------------
(* Properties of the server *)

Responded == pc = "responded"

\* BASIC_AUTH_PASSWORD is set to a non-empty value in the environment
PasswordConfigured ==
    K("BASIC_AUTH_PASSWORD") \in DOMAIN env /\ env[K("BASIC_AUTH_PASSWORD")] # <<>>

\* the view function registered for each route
ViewOf(route) ==
    CASE route = "/" -> "index"
      [] route = "/<path:filename>" -> "serve_web_files"
      [] route = "/data/<path:filepath>" -> "serve_data"
      [] route = "/api/layers" -> "list_layers"
      [] route = "/api/info" -> "app_info"
      [] route = "/api/data-source" -> "data_source_info"
      [] route = "/api/layer-config" -> "layer_config"
      [] route = "/layers" -> "layers_page"

Rejected(resp) ==
    resp.status = 401 /\ resp.www_authenticate /\ resp.handler = "none"

PasswordMatches ==
    request.auth.present /\ request.auth.password = env[K("BASIC_AUTH_PASSWORD")]

\* C1: with BASIC_AUTH_PASSWORD set to a non-empty value, a request to any
\* route that has no Authorization header or a password other than
\* BASIC_AUTH_PASSWORD is answered 401 with WWW-Authenticate and the view
\* function does not run; a request with the matching password reaches the
\* view function of its route, and no other request does.
C1_AuthRequired ==
    (Responded /\ PasswordConfigured) =>
        /\ ~PasswordMatches =>
              /\ Rejected(response)
              /\ response.body = NoBody /\ response.file = NoEntry
              /\ response.location = <<>>
        /\ PasswordMatches => response.handler = ViewOf(request.route)

\* a request with a wrong password is rejected on the layer-config route
C1_Witness ==
    /\ Responded /\ PasswordConfigured
    /\ request.route = "/api/layer-config"
    /\ request.auth.present /\ ~PasswordMatches
    /\ Rejected(response)

\* C2: with BASIC_AUTH_PASSWORD unset or empty no request is answered 401
\* and the view function of the route always runs.
C2_AuthDisabled ==
    (Responded /\ ~PasswordConfigured) =>
        /\ response.status # 401
        /\ ~response.www_authenticate
        /\ response.handler = ViewOf(request.route)

\* BASIC_AUTH_PASSWORD is set and empty, a request without credentials is served
C2_Witness ==
    /\ Responded
    /\ K("BASIC_AUTH_PASSWORD") \in DOMAIN env /\ ~PasswordConfigured
    /\ ~request.auth.present
    /\ response.handler = "serve_data"

Usernames == {<<>>, <<"alice">>, <<"bob">>}

\* C3: the request just answered and the same request under any other
\* username (the empty one included) with the same password are both
\* rejected or both accepted.
C3_UsernameIgnored ==
    (Responded /\ request.auth.present) =>
        \A u \in Usernames :
            Rejected(requires_auth(Authorization(u, request.auth.password),
                                   Dispatch(request)).response)
                <=> Rejected(response)

\* a request with an empty username and the right password was accepted
C3_Witness ==
    /\ Responded /\ PasswordConfigured
    /\ request.auth.present /\ request.auth.username = <<>>
    /\ PasswordMatches
    /\ response.handler = ViewOf(request.route)

\* serve_data ran for the request
DataServed ==
    Responded /\ request.route = "/data/<path:filepath>" /\ response.handler = "serve_data"

\* C4 as stated: in mode 'remote' with a non-empty remote_url every request
\* is answered 302 with the location remote_url + '/' + filepath and no local
\* file is served; with an empty remote_url it is answered 500 with an error.
C4_AsStated ==
    (DataServed /\ DATA_MODE = Str(<<"remote">>)) =>
        /\ response.file = NoEntry
        /\ IF DATA_REMOTE_URL.s # <<>>
           THEN /\ response.status = 302
                /\ response.location = DATA_REMOTE_URL.s \o <<"/">> \o request.filepath
           ELSE /\ response.status = 500
                /\ response.body = JsonError("Remote mode configured but no remote_url set")

\* the file system entry the requested path names, starting at DATA_DIR
Requested ==
    Resolve(DATA_DIR, SelectSeq(Split(request.filepath, "/"), LAMBDA c : c # <<>>))

\* entry i of fallback_priority answers the request
EntryAnswers(i) ==
    \/ PriorityItems[i] = Str(<<"local">>) /\ Requested # NoEntry
    \/ PriorityItems[i] = Str(<<"remote">>) /\ DATA_REMOTE_URL.s # <<>>

\* the response that sends the requested local entry: the file, or 500 when
\* the entry is a directory, which cannot be sent
LocalAnswer ==
    /\ response.location = <<>>
    /\ Requested \in RegularFiles => (response.status = 200 /\ response.file = Requested)
    /\ Requested \in Directories => (response.status = 500 /\ response.file = NoEntry)

\* C5: in mode 'hybrid' the first entry of fallback_priority that answers
\* decides the response: a 'local' entry answers when the requested path
\* exists and sends it, a 'remote' entry answers when remote_url is not
\* empty and redirects with 302; the response is 404 exactly when no entry
\* answers.
C5_HybridOrder ==
    (DataServed /\ DATA_MODE = Str(<<"hybrid">>)) =>
        /\ (response.status = 404) <=> (\A i \in 1..Len(PriorityItems) : ~EntryAnswers(i))
        /\ \A i \in 1..Len(PriorityItems) :
              (EntryAnswers(i) /\ \A j \in 1..(i-1) : ~EntryAnswers(j)) =>
                  IF PriorityItems[i] = Str(<<"local">>)
                  THEN LocalAnswer
                  ELSE /\ response.status = 302
                       /\ response.location # <<>>
                       /\ response.file = NoEntry

\* 'remote' stands before 'local', the file exists locally and the request
\* is redirected
C5_Witness ==
    /\ DataServed /\ DATA_MODE = Str(<<"hybrid">>)
    /\ Len(PriorityItems) = 2
    /\ PriorityItems[1] = Str(<<"remote">>) /\ PriorityItems[2] = Str(<<"local">>)
    /\ Requested \in RegularFiles
    /\ response.status = 302

C7_AsStated ==
    (DataServed /\ response.file # NoEntry) => IsPrefix(DATA_DIR, response.file)

\* the members of a JSON document below the path prefix
Below(body, prefix) ==
    { <<SubSeq(e[1], Len(prefix) + 1, Len(e[1])), e[2]>> :
        e \in {x \in body : IsPrefix(prefix, x[1])} }

\* the global data_source of DATA_SOURCE_CONFIG
GlobalDataSource == heap[Item(heap[1], K("data_source")).a]

\* the data_source layer i has in layers.yaml, an empty dict when it has none
OwnDataSource(doc, i) ==
    IF Has(doc[doc[2].vals[i].a], K("data_source"))
    THEN doc[Item(doc[doc[2].vals[i].a], K("data_source")).a]
    ELSE Dict(<<>>, <<>>)

\* C8 as stated: every layer returned by /api/layer-config has a data_source
\* that holds the layer's own value for each key the layer sets and the
\* global value for every other key of the global data_source.
C8_AsStated ==
    (/\ Responded /\ request.route = "/api/layer-config" /\ response.status = 200
     /\ Has(request.layers_yaml[1], K("layers"))) =>
        \A i \in 1..Len(request.layers_yaml[2].vals) :
            /\ \A n \in 1..Len(OwnDataSource(request.layers_yaml, i).keys) :
                  Below(response.body,
                        <<K("layers"), K(ToString(i)), K("data_source"),
                          OwnDataSource(request.layers_yaml, i).keys[n]>>)
                      = jsonify(request.layers_yaml, OwnDataSource(request.layers_yaml, i).vals[n])
            /\ \A n \in 1..Len(GlobalDataSource.keys) :
                  ~Has(OwnDataSource(request.layers_yaml, i), GlobalDataSource.keys[n]) =>
                      Below(response.body,
                            <<K("layers"), K(ToString(i)), K("data_source"),
                              GlobalDataSource.keys[n]>>)
                          = jsonify(heap, GlobalDataSource.vals[n])

----------------------------------------------------------------------------
(* Harness of merge_data_source_configs: the call of the layer loop of     *)
(* layer_config on any global configuration and any layer.                 *)

\* the configurations DATA_SOURCE_CONFIG may be, one without data_source included
MergeGlobals ==
    {load_data_source_config(y) : y \in ServerYamls}
    \cup {<<Dict(<<K("env_overrides")>>, <<Ref(2)>>), Dict(<<>>, <<>>)>>}

\* layers.yaml documents of one layer
MergeLayerDocs == {LayersYaml(<<src>>) : src \in LayerSources}

MergeInit ==
    /\ pc = "merge_loaded"
    /\ env = <<>>
    /\ config_yaml \in MergeGlobals
    /\ \E doc \in MergeLayerDocs :
          /\ request = [NoRequest EXCEPT !.layers_yaml = doc]
          /\ heap = SafeLoad(config_yaml, doc)
    /\ startup = Len(config_yaml)
    /\ BASIC_AUTH_ENABLED = FALSE
    /\ BASIC_AUTH_PASSWORD = <<>>
    /\ DATA_MODE = None
    /\ DATA_REMOTE_URL = None
    /\ DATA_FALLBACK_PRIORITY = None
    /\ response = NoResponse
    /\ result = [raised |-> FALSE, value |-> None]
    /\ argv = <<>>
    /\ files = {}
    /\ output = <<>>

\* the layer of the loaded document
TheLayer == Ref(startup + 3)

\* merged_ds = merge_data_source_configs(DATA_SOURCE_CONFIG, layer)
MergeCall ==
    /\ pc = "merge_loaded"
    /\ LET r == merge_data_source_configs(heap, Ref(1), TheLayer)
       IN  /\ heap' = r.heap
           /\ result' = [raised |-> r.raised, value |-> r.value]
    /\ pc' = "merged"
    /\ UNCHANGED <<env, config_yaml, startup, BASIC_AUTH_ENABLED, BASIC_AUTH_PASSWORD,
                   DATA_MODE, DATA_REMOTE_URL, DATA_FALLBACK_PRIORITY, request, response,
                   argv, files, output>>

MergeNext == MergeCall

SpecMerge == MergeInit /\ [][MergeNext]_vars

\* the objects reachable in heap h from value v
RECURSIVE Reach(_, _)
Reach(h, v) ==
    IF v.t # "ref" THEN {}
    ELSE {v.a} \cup UNION {Reach(h, h[v.a].vals[j]) : j \in 1..Len(h[v.a].vals)}

\* the heap the call was made on
MergeBefore == SafeLoad(config_yaml, request.layers_yaml)

\* global_config['data_source'] and layer_config['data_source'] before the
\* call, Missing when the key is absent
GlobalDS == Lookup(MergeBefore, Ref(1), <<K("data_source")>>)
LayerDS == Lookup(MergeBefore, TheLayer, <<K("data_source")>>)

Keys(h, v) == IF IsDictRef(h, v) THEN {h[v.a].keys[n] : n \in 1..Len(h[v.a].keys)} ELSE {}

\* C9: merge_data_source_configs leaves every object of its arguments as it
\* was; it returns a new dict whose keys are those of the two data_source
\* mappings, with the layer's value for each key of layer_config['data_source']
\* and a value equal to the global one for every other key; no object of the
\* returned dict is an object of the global configuration. The call raises
\* exactly when layer_config['data_source'] is present and no mapping.
C9_Merge ==
    (pc = "merged") =>
        /\ \A a \in 1..Len(MergeBefore) : heap[a] = MergeBefore[a]
        /\ result.raised <=> (LayerDS # Missing /\ ~IsDictRef(MergeBefore, LayerDS))
        /\ ~result.raised =>
              /\ IsDictRef(heap, result.value)
              /\ result.value.a > Len(MergeBefore)
              /\ Keys(heap, result.value) = Keys(MergeBefore, GlobalDS) \cup Keys(MergeBefore, LayerDS)
              /\ \A k \in Keys(MergeBefore, LayerDS) :
                    Item(heap[result.value.a], k) = Item(MergeBefore[LayerDS.a], k)
              /\ \A k \in Keys(MergeBefore, GlobalDS) \ Keys(MergeBefore, LayerDS) :
                    /\ Item(heap[result.value.a], k).t = Item(MergeBefore[GlobalDS.a], k).t
                    /\ jsonify(heap, Item(heap[result.value.a], k))
                           = jsonify(MergeBefore, Item(MergeBefore[GlobalDS.a], k))
              /\ Reach(heap, result.value) \cap Reach(heap, Ref(1)) = {}

\* the layer sets remote_url, the global configuration has a mode, a
\* remote_url and a fallback_priority list, and the call returned
C9_Witness ==
    /\ pc = "merged" /\ ~result.raised
    /\ Keys(MergeBefore, LayerDS) = {K("remote_url")}
    /\ {K("mode"), K("fallback_priority")} \subseteq Keys(MergeBefore, GlobalDS)
    /\ Item(heap[result.value.a], K("remote_url")) = Str(<<"layer.example">>)
    /\ Item(heap[result.value.a], K("mode")) = Item(MergeBefore[GlobalDS.a], K("mode"))
    /\ IsListRef(heap, Item(heap[result.value.a], K("fallback_priority")))

----------------------------------------------------------------------------
(* scripts/run_all.py *)

\* the option strings of the add_argument calls of main, in the order of the
\* calls; the fifth call is given none
ParserArguments == <<
    <<"--skip-aoi">>, <<"--skip-landcover">>, <<"--skip-ndvi">>, <<"--skip-fire">>,
    <<>>,
    <<"--skip-fire-fuel-dem">>, <<"--skip-communities">>, <<"--skip-filters">>,
    <<"--ndvi-example">> >>

\* parser.add_argument(*names): a call without names is taken for a
\* positional argument, whose dest is then missing, and raises TypeError
add_argument(names) ==
    [raised |-> names = <<>>, options |-> {names[i] : i \in 1..Len(names)}]

\* the add_argument calls of main from call i on
RECURSIVE BuildParser(_, _)
BuildParser(i, options) ==
    IF i > Len(ParserArguments) THEN [raised |-> FALSE, options |-> options]
    ELSE IF add_argument(ParserArguments[i]).raised
    THEN [raised |-> TRUE, options |-> options]
    ELSE BuildParser(i + 1, options \cup add_argument(ParserArguments[i]).options)

\* the keys of results, in the order main assigns them
Steps == <<"aoi", "landcover", "ndvi", "fire", "fire_fuel_dem", "communities",
           "filter_reserves", "filter_fires", "clip_fuel">>

\* subprocess.run(cmd, check=True) of the step's script in world a: its
\* return code
ReturnCode(a, step) == IF step \in a.failing THEN 1 ELSE 0

\* run_script(script_path, args): True when the subprocess exits 0, False
\* when CalledProcessError is caught
run_script(a, step) == ReturnCode(a, step) = 0

\* what main has done so far
NoProgress ==
    [results |-> <<>>, started |-> <<>>, raised |-> FALSE,
     summary_printed |-> FALSE, summary |-> <<>>]

\* results[step] = run_script(script, args=args)
Ran(st, a, step, args) ==
    [st EXCEPT !.started = Append(@, [step |-> step, args |-> args]),
               !.results = Append(@, [step |-> step,
                                      value |-> IF run_script(a, step) THEN "True" ELSE "False"])]

\* results[step] = value without a subprocess
Assigned(st, step, value) ==
    [st EXCEPT !.results = Append(@, [step |-> step, value |-> value])]

\* results[step]
ResultOf(st, step) ==
    LET i == CHOOSE i \in 1..Len(st.results) : st.results[i].step = step
    IN  st.results[i].value

\* step 1
CreateAoi(st, a) ==
    IF "--skip-aoi" \notin a.flags THEN Ran(st, a, "aoi", <<>>)
    ELSE Assigned(st, "aoi", "True")

\* steps 2 to 7: if not args.skip_<step> and results['aoi']
GatedStep(st, a, flag, step, args) ==
    IF flag \notin a.flags /\ ResultOf(st, "aoi") = "True" THEN Ran(st, a, step, args)
    ELSE Assigned(st, step, "None")

\* steps 8 to 10: the raw directory exists and holds a file of a known format
FilterStep(st, a, step, kind) ==
    IF a.raw[kind] # "absent"
    THEN IF a.raw[kind] = "file" THEN Ran(st, a, step, <<kind>>)
         ELSE Assigned(st, step, "None")
    ELSE Assigned(st, step, "None")

\* the filter block; load_config() raises when config.yaml cannot be read
Filters(st, a) ==
    IF "--skip-filters" \notin a.flags
    THEN IF ~a.config_ok THEN [st EXCEPT !.raised = TRUE]
         ELSE FilterStep(FilterStep(FilterStep(st, a, "filter_reserves", "reserves"),
                                    a, "filter_fires", "fire"),
                         a, "clip_fuel", "fuel")
    ELSE Assigned(Assigned(Assigned(st, "filter_reserves", "None"),
                           "filter_fires", "None"),
                  "clip_fuel", "None")

\* the download steps 2 to 7
Downloads(st, a) ==
    GatedStep(
        GatedStep(
            GatedStep(
                GatedStep(
                    GatedStep(st, a, "--skip-landcover", "landcover", <<>>),
                    a, "--skip-ndvi", "ndvi",
                    IF "--ndvi-example" \in a.flags THEN <<"--example">> ELSE <<>>),
                a, "--skip-fire", "fire", <<>>),
            a, "--skip-fire-fuel-dem", "fire_fuel_dem", <<"--skip-fires", "--skip-fuel">>),
        a, "--skip-communities", "communities", <<>>)

\* step.upper()
Upper(step) ==
    CASE step = "aoi" -> "AOI"
      [] step = "landcover" -> "LANDCOVER"
      [] step = "ndvi" -> "NDVI"
      [] step = "fire" -> "FIRE"
      [] step = "fire_fuel_dem" -> "FIRE_FUEL_DEM"
      [] step = "communities" -> "COMMUNITIES"
      [] step = "filter_reserves" -> "FILTER_RESERVES"
      [] step = "filter_fires" -> "FILTER_FIRES"
      [] step = "clip_fuel" -> "CLIP_FUEL"

\* the PIPELINE SUMMARY: one line for each item of results
Summary(st) ==
    IF st.raised THEN st
    ELSE [st EXCEPT
             !.summary_printed = TRUE,
             !.summary = [i \in 1..Len(st.results) |->
                             [step |-> Upper(st.results[i].step),
                              status |-> CASE st.results[i].value = "None" -> "SKIPPED"
                                           [] st.results[i].value = "True" -> "SUCCESS"
                                           [] OTHER -> "FAILED"]]]

\* parser.parse_args(): an option the parser does not know ends the process
\* with SystemExit
parse_args(parser, a) == [raised |-> ~(a.flags \subseteq parser.options)]

\* main() of run_all.py in world a
run_all_main(a) ==
    IF BuildParser(1, {}).raised THEN [NoProgress EXCEPT !.raised = TRUE]
    ELSE IF parse_args(BuildParser(1, {}), a).raised THEN [NoProgress EXCEPT !.raised = TRUE]
    ELSE Summary(Filters(Downloads(CreateAoi(NoProgress, a), a), a))

----------------------------------------------------------------------------
(* Runs of run_all.py with any combination of its flags in any world *)

MaxFailing == 1

RunAllFlags == {"--skip-aoi", "--skip-landcover", "--skip-ndvi", "--skip-fire",
                "--skip-fire-fuel-dem", "--skip-communities", "--skip-filters",
                "--ndvi-example"}

RawKinds == {"reserves", "fire", "fuel"}

\* data/raw/<kind>: absent, an empty directory, or one with a file to process
RawStates == [RawKinds -> {"absent", "file"}] \cup {[k \in RawKinds |-> "empty"]}

\* the worlds a run meets: the scripts that exit non-zero when run, the raw
\* data directories, and whether config.yaml can be read
RunAllWorlds ==
    [flags : SUBSET RunAllFlags,
     failing : {f \in SUBSET {Steps[i] : i \in 1..Len(Steps)} : Cardinality(f) <= MaxFailing},
     raw : RawStates,
     config_ok : BOOLEAN]

\* the server is not part of a script's run
NoServer ==
    /\ env = <<>>
    /\ config_yaml = <<>>
    /\ heap = <<>>
    /\ startup = 0
    /\ BASIC_AUTH_ENABLED = FALSE
    /\ BASIC_AUTH_PASSWORD = <<>>
    /\ DATA_MODE = None
    /\ DATA_REMOTE_URL = None
    /\ DATA_FALLBACK_PRIORITY = None
    /\ request = NoRequest
    /\ response = NoResponse

RunAllInit ==
    /\ pc = "run_all"
    /\ argv \in RunAllWorlds
    /\ files = {}
    /\ output = NoProgress
    /\ result = [raised |-> FALSE, value |-> None]
    /\ NoServer

\* python scripts/run_all.py <flags>, from start to the end of the process
RunAll ==
    /\ pc = "run_all"
    /\ pc' = "run_all_exited"
    /\ output' = run_all_main(argv)
    /\ result' = [raised |-> run_all_main(argv).raised, value |-> None]
    /\ UNCHANGED <<argv, files>>
    /\ UNCHANGED server_vars

RunAllNext == RunAll

SpecRunAll == RunAllInit /\ [][RunAllNext]_vars

\* the steps of the documented order that started, in the order they started
StartedSteps == [i \in 1..Len(output.started) |-> output.started[i].step]

StepIndex(step) == CHOOSE i \in 1..Len(Steps) : Steps[i] = step

\* the flag that skips a step
SkipFlag(step) ==
    CASE step = "aoi" -> "--skip-aoi"
      [] step = "landcover" -> "--skip-landcover"
      [] step = "ndvi" -> "--skip-ndvi"
      [] step = "fire" -> "--skip-fire"
      [] step = "fire_fuel_dem" -> "--skip-fire-fuel-dem"
      [] step = "communities" -> "--skip-communities"
      [] OTHER -> "--skip-filters"

\* C11 as stated: every run of run_all.py with any combination of its flags
\* parses its arguments, starts no skipped step, starts the AOI step unless
\* it is skipped, starts steps in the documented order only, and reaches
\* the PIPELINE SUMMARY.
C11_AsStated ==
    (pc = "run_all_exited") =>
        /\ ~result.raised
        /\ output.summary_printed
        /\ \A i \in 1..Len(StartedSteps) : SkipFlag(StartedSteps[i]) \notin argv.flags
        /\ "--skip-aoi" \notin argv.flags => (Len(StartedSteps) > 0 /\ StartedSteps[1] = "aoi")
        /\ \A i, j \in 1..Len(StartedSteps) :
              i < j => StepIndex(StartedSteps[i]) < StepIndex(StartedSteps[j])

\* the summary line of a step
SummaryLines(step) == {i \in 1..Len(output.summary) : output.summary[i].step = Upper(step)}

Started(step) == \E i \in 1..Len(StartedSteps) : StartedSteps[i] = step

\* C12 as stated: a failing subprocess aborts nothing: the run ends without
\* an exception, every filter step whose raw data is there starts unless
\* filters are skipped, and the summary has one line for each step, which
\* says SUCCESS when its subprocess exited 0 or the AOI was skipped, FAILED
\* when its subprocess exited non-zero and SKIPPED when none was started.
C12_AsStated ==
    (pc = "run_all_exited" /\ argv.config_ok) =>
        /\ ~result.raised
        /\ "--skip-filters" \notin argv.flags =>
              /\ argv.raw["reserves"] = "file" => Started("filter_reserves")
              /\ argv.raw["fire"] = "file" => Started("filter_fires")
              /\ argv.raw["fuel"] = "file" => Started("clip_fuel")
        /\ \A n \in 1..Len(Steps) :
              /\ Cardinality(SummaryLines(Steps[n])) = 1
              /\ \A i \in SummaryLines(Steps[n]) :
                    output.summary[i].status =
                        IF Started(Steps[n])
                        THEN IF ReturnCode(argv, Steps[n]) = 0 THEN "SUCCESS" ELSE "FAILED"
                        ELSE IF Steps[n] = "aoi" THEN "SUCCESS" ELSE "SKIPPED"

----------------------------------------------------------------------------
(* scripts/filters/clip_fuel_types.py *)

\* a path: its directory, the tokens of its stem and its suffix
Path(parent, stem, suffix) == [parent |-> parent, stem |-> stem, suffix |-> suffix]

\* args.output when -o is not given
NoPath == Path("", <<>>, "")

\* output_dir / 'fuel_types.tif'
DefaultOutput == Path("data/processed/fuel", <<"fuel_types">>, ".tif")

\* args.output if it is given, the default otherwise
OutputPath(a) == IF a.output # NoPath THEN a.output ELSE DefaultOutput

\* output_path.parent / f"{output_path.stem}_temp.tif"
TempPath(output_path) ==
    Path(output_path.parent, output_path.stem \o <<"_temp">>, ".tif")

\* path.unlink()
Unlink(fs, path) == fs \ {path}

\* clip_raster(input, aoi, temp_path): it raises before the destination is
\* opened (the input cannot be read, mask fails), or after temp_path has
\* been created, or it writes temp_path and returns
clip_raster(fs, temp_path, outcome) ==
    IF outcome = "raise_early" THEN [files |-> fs, raised |-> TRUE]
    ELSE [files |-> fs \cup {temp_path}, raised |-> outcome = "raise_late"]

\* reproject_to_wgs84(temp_path, output_path): False when the raster is in
\* EPSG:4326 already, otherwise output_path is written and True returned; it
\* raises when the raster cannot be opened or while the output is written
reproject_to_wgs84(fs, a, temp_path, output_path, outcome) ==
    IF outcome = "raise_early" \/ temp_path \notin fs
    THEN [files |-> fs, raised |-> TRUE, returned |-> FALSE]
    ELSE IF a.wgs84 THEN [files |-> fs, raised |-> FALSE, returned |-> FALSE]
    ELSE [files |-> fs \cup {output_path}, raised |-> outcome = "raise_late",
          returned |-> outcome = "ok"]

\* shutil.move(temp_path, output_path)
move(fs, temp_path, output_path, outcome) ==
    IF outcome = "ok" /\ temp_path \in fs
    THEN [files |-> (fs \ {temp_path}) \cup {output_path}, raised |-> FALSE]
    ELSE [files |-> fs, raised |-> TRUE]

\* a faulty variant of CleanUp that leaves the temporary file where it is
CleanUp_Forgotten(fs, temp_path) == fs

\* if temp_path.exists(): temp_path.unlink()
CleanUp(fs, temp_path) == IF temp_path \in fs THEN Unlink(fs, temp_path) ELSE fs

\* sys.exit(status), or the end of main with status 0
Exit(status) == [raised |-> status # 0, value |-> IntVal(status)]

Outcomes == {"raise_early", "raise_late", "ok"}

\* -o paths: one plain, one named like the temporary file of another run
OutputArgs ==
    {NoPath, Path("out", <<"x">>, ".tif"), Path("out", <<"x", "_temp">>, ".tif")}

\* a run: the command line, whether config.yaml, the input file and the AOI
\* can be read, and whether the clipped raster is in EPSG:4326
ClipWorlds ==
    [output : OutputArgs, skip_stats : BOOLEAN, config_ok : BOOLEAN,
     input_exists : BOOLEAN, aoi_ok : BOOLEAN, wgs84 : BOOLEAN]

\* files left by earlier runs may be there
ClipInit ==
    /\ pc = "clip_fuel"
    /\ argv \in ClipWorlds
    /\ files \in SUBSET {OutputPath(argv), TempPath(OutputPath(argv))}
    /\ output = <<>>
    /\ result = [raised |-> FALSE, value |-> None]
    /\ NoServer

\* parse_args, setup_logging, load_config, the output path
ClipSetup ==
    /\ pc = "clip_fuel"
    /\ IF argv.config_ok
       THEN pc' = "check_input" /\ UNCHANGED result
       ELSE pc' = "clip_fuel_exited" /\ result' = Exit(1)
    /\ UNCHANGED <<argv, files, output>>
    /\ UNCHANGED server_vars

\* if not args.input_file.exists(): sys.exit(1)
ClipCheckInput ==
    /\ pc = "check_input"
    /\ IF argv.input_exists
       THEN pc' = "load_aoi" /\ UNCHANGED result
       ELSE pc' = "clip_fuel_exited" /\ result' = Exit(1)
    /\ UNCHANGED <<argv, files, output>>
    /\ UNCHANGED server_vars

\* aoi = load_aoi(), sys.exit(1) when it raises
ClipLoadAoi ==
    /\ pc = "load_aoi"
    /\ IF argv.aoi_ok
       THEN pc' = "clip" /\ UNCHANGED result
       ELSE pc' = "clip_fuel_exited" /\ result' = Exit(1)
    /\ UNCHANGED <<argv, files, output>>
    /\ UNCHANGED server_vars

\* the try block begins: clip_raster(args.input_file, aoi, temp_path, logger)
ClipRaster ==
    /\ pc = "clip"
    /\ \E outcome \in Outcomes :
          /\ files' = clip_raster(files, TempPath(OutputPath(argv)), outcome).files
          /\ pc' = IF clip_raster(files, TempPath(OutputPath(argv)), outcome).raised
                   THEN "except" ELSE "reproject"
    /\ output' = Append(output, "clip")
    /\ UNCHANGED <<argv, result>>
    /\ UNCHANGED server_vars

\* where main goes on after reproject_to_wgs84
AfterReproject(r) ==
    IF r.raised THEN "except" ELSE IF r.returned THEN "cleanup" ELSE "move"

\* reprojected = reproject_to_wgs84(temp_path, output_path, logger)
ClipReproject ==
    /\ pc = "reproject"
    /\ \E outcome \in Outcomes :
          /\ files' = reproject_to_wgs84(files, argv, TempPath(OutputPath(argv)),
                                         OutputPath(argv), outcome).files
          /\ pc' = AfterReproject(
                       reproject_to_wgs84(files, argv, TempPath(OutputPath(argv)),
                                          OutputPath(argv), outcome))
    /\ output' = Append(output, "reproject")
    /\ UNCHANGED <<argv, result>>
    /\ UNCHANGED server_vars

\* if not reprojected: shutil.move(str(temp_path), str(output_path))
ClipMove ==
    /\ pc = "move"
    /\ \E outcome \in {"ok", "raise_early"} :
          /\ files' = move(files, TempPath(OutputPath(argv)), OutputPath(argv), outcome).files
          /\ pc' = IF move(files, TempPath(OutputPath(argv)), OutputPath(argv), outcome).raised
                   THEN "except" ELSE "cleanup"
    /\ output' = Append(output, "move")
    /\ UNCHANGED <<argv, result>>
    /\ UNCHANGED server_vars

\* the clean-up of the try block
ClipCleanUp ==
    /\ pc = "cleanup"
    /\ files' = CleanUp(files, TempPath(OutputPath(argv)))
    /\ output' = IF TempPath(OutputPath(argv)) \in files THEN Append(output, "unlink")
                 ELSE output
    /\ pc' = "info"
    /\ UNCHANGED <<argv, result>>
    /\ UNCHANGED server_vars

\* output_path.stat() and rasterio.open(output_path): both raise when the
\* output is not there, and the raster may be unreadable
ClipInfo ==
    /\ pc = "info"
    /\ \E outcome \in {"ok", "raise_early"} :
          pc' = IF outcome = "ok" /\ OutputPath(argv) \in files THEN "stats" ELSE "except"
    /\ output' = Append(output, "info")
    /\ UNCHANGED <<argv, files, result>>
    /\ UNCHANGED server_vars

\* get_fuel_type_stats unless --skip-stats, then the end of main
ClipStats ==
    /\ pc = "stats"
    /\ \E outcome \in {"ok", "raise_early"} :
          IF argv.skip_stats \/ outcome = "ok"
          THEN pc' = "clip_fuel_exited" /\ result' = Exit(0)
          ELSE pc' = "except" /\ UNCHANGED result
    /\ output' = IF argv.skip_stats THEN output ELSE Append(output, "stats")
    /\ UNCHANGED <<argv, files>>
    /\ UNCHANGED server_vars

\* except Exception: the temporary file is removed, sys.exit(1)
ClipExcept ==
    /\ pc = "except"
    /\ files' = CleanUp(files, TempPath(OutputPath(argv)))
    /\ output' = IF TempPath(OutputPath(argv)) \in files THEN Append(output, "unlink")
                 ELSE output
    /\ pc' = "clip_fuel_exited"
    /\ result' = Exit(1)
    /\ UNCHANGED argv
    /\ UNCHANGED server_vars

ClipNext ==
    \/ ClipSetup
    \/ ClipCheckInput
    \/ ClipLoadAoi
    \/ ClipRaster
    \/ ClipReproject
    \/ ClipMove
    \/ ClipCleanUp
    \/ ClipInfo
    \/ ClipStats
    \/ ClipExcept

SpecClip == ClipInit /\ [][ClipNext]_vars

\* the operation was started
Logged(op) == \E i \in 1..Len(output) : output[i] = op

\* C13: reprojection starts only after the clip step; once the clip step
\* has started, the process ends with status 0 or 1 and at its end the
\* temporary file <output stem>_temp.tif does not exist, whether it ended
\* with a reprojection, with the move of the temporary file or with an
\* exception (status 1); when the status is 0 the output file exists.
C13_TempRemoved ==
    /\ \A i \in 1..Len(output) :
          output[i] \in {"reproject", "move"} => \E j \in 1..(i-1) : output[j] = "clip"
    /\ (pc = "clip_fuel_exited" /\ Logged("clip")) =>
          /\ TempPath(OutputPath(argv)) \notin files
          /\ result.value \in {IntVal(0), IntVal(1)}
          /\ result.value = IntVal(0) =>
                /\ OutputPath(argv) \in files
                /\ Logged("reproject")
                /\ Logged("move") <=> argv.wgs84

\* the reprojection raised after the clip step wrote the temporary file, the
\* file was removed and the process ended with status 1
C13_Witness ==
    /\ pc = "clip_fuel_exited"
    /\ result.value = IntVal(1)
    /\ output = <<"clip", "reproject", "unlink">>
    /\ TempPath(OutputPath(argv)) \notin files

----------------------------------------------------------------------------
(* scripts/06_download_fire_fuel_dem.py: download_nbac_fire_perimeters *)

\* how the request for one year ends: requests.get raises, the status is
\* not 200, the text has no 'features', gpd.read_file raises, the frame is
\* empty, or it holds fire perimeters
YearOutcomes == {"exception", "status", "no_features", "unreadable", "empty", "found"}

\* what the loop body logs for the year after "Fetching fire perimeters"
Logs(outcome) ==
    CASE outcome \in {"exception", "unreadable"} -> "warning: Error fetching"
      [] outcome \in {"status", "no_features"} -> "warning: Could not fetch data"
      [] outcome = "empty" -> "info: No fires found in AOI"
      [] outcome = "found" -> "info: Found fire perimeters"

\* a faulty variant of NextYear that leaves the loop when a request raises
NextYear_Break(year, end_year, outcome) ==
    IF outcome \in {"exception", "unreadable"} THEN end_year + 1 ELSE year + 1

\* the year the for loop goes on with after the body ended with outcome
NextYear(year, end_year, outcome) == year + 1

\* output_dir / f"fire_perimeters_{start_year}_{end_year}.geojson"
FirePerimetersFile(start_year, end_year) ==
    [name |-> "fire_perimeters", start_year |-> start_year, end_year |-> end_year,
     suffix |-> ".geojson"]

\* the state of the call: the loop variable, the requests sent with their
\* outcomes, the log, the years in fire_perimeters and the files saved
NbacCall(year) ==
    [year |-> year, requests |-> <<>>, log |-> <<>>, fire_perimeters |-> <<>>,
     saved |-> <<>>]

\* one pass of the loop body for output.year
FetchYear(o, end_year, outcome) ==
    [o EXCEPT !.year = NextYear(o.year, end_year, outcome),
              !.requests = Append(@, [year |-> o.year, outcome |-> outcome]),
              !.log = Append(@, [year |-> o.year, line |-> Logs(outcome)]),
              !.fire_perimeters = IF outcome = "found" THEN Append(@, o.year) ELSE @]

MaxYears == 3

DefaultStartYear == 2010

Years == DefaultStartYear..(DefaultStartYear + MaxYears - 1)

NbacInit ==
    /\ pc = "nbac_loop"
    /\ argv \in [start_year : Years, end_year : Years]
    /\ files \in SUBSET {FirePerimetersFile(argv.start_year, argv.end_year)}
    /\ output = NbacCall(argv.start_year)
    /\ result = [raised |-> FALSE, value |-> None]
    /\ NoServer

\* for year in range(start_year, end_year + 1): the body for one year
NbacFetch ==
    /\ pc = "nbac_loop"
    /\ output.year <= argv.end_year
    /\ \E outcome \in YearOutcomes : output' = FetchYear(output, argv.end_year, outcome)
    /\ UNCHANGED <<pc, argv, files, result>>
    /\ UNCHANGED server_vars

\* after the loop: the frames are combined, clipped and saved and the
\* combined frame is returned, unless one of these calls raises; with no
\* frame None is returned
NbacCombine ==
    /\ pc = "nbac_loop"
    /\ output.year > argv.end_year
    /\ pc' = "nbac_returned"
    /\ IF output.fire_perimeters # <<>>
       THEN \E saved \in BOOLEAN :
               IF saved
               THEN /\ files' = files \cup {FirePerimetersFile(argv.start_year, argv.end_year)}
                    /\ output' = [output EXCEPT !.saved =
                                     <<FirePerimetersFile(argv.start_year, argv.end_year)>>]
                    /\ result' = [raised |-> FALSE, value |-> Str(<<"combined">>)]
               ELSE /\ result' = [raised |-> TRUE, value |-> Missing]
                    /\ UNCHANGED <<files, output>>
       ELSE /\ result' = [raised |-> FALSE, value |-> None]
            /\ UNCHANGED <<files, output>>
    /\ UNCHANGED argv
    /\ UNCHANGED server_vars

NbacNext == NbacFetch \/ NbacCombine

SpecNbac == NbacInit /\ [][NbacNext]_vars

\* the number of years from start_year to end_year
YearCount == IF argv.end_year >= argv.start_year THEN argv.end_year - argv.start_year + 1 ELSE 0

\* C14: the requests are those for start_year, start_year + 1, ... in this
\* order, one for each year; each one has its line in the log, whatever its
\* outcome; when the function has ended every year up to end_year has been
\* requested, however earlier years ended; and it has returned None without
\* saving a file exactly when no year produced a non-empty result.
C14_AllYears ==
    /\ Len(output.requests) <= YearCount
    /\ Len(output.log) = Len(output.requests)
    /\ \A i \in 1..Len(output.requests) :
          /\ output.requests[i].year = argv.start_year + i - 1
          /\ output.log[i] = [year |-> output.requests[i].year,
                              line |-> Logs(output.requests[i].outcome)]
    /\ pc = "nbac_returned" =>
          /\ Len(output.requests) = YearCount
          /\ (~result.raised /\ result.value = None /\ output.saved = <<>>)
                <=> (\A i \in 1..Len(output.requests) : output.requests[i].outcome # "found")
          /\ (~result.raised /\ result.value # None) =>
                output.saved = <<FirePerimetersFile(argv.start_year, argv.end_year)>>

\* the first year's request raised, a later year was found, and the call
\* returned the combined frame
C14_Witness ==
    /\ pc = "nbac_returned"
    /\ Len(output.requests) = 3
    /\ output.requests[1].outcome = "exception"
    /\ output.requests[2].outcome = "status"
    /\ output.requests[3].outcome = "found"
    /\ result.value = Str(<<"combined">>)
    /\ output.saved # <<>>

====
